---- MODULE Spec2Model ----
(***************************************************************************)
(* Model of the GoPasswordUtilities library (package GoPasswordUtilities): *)
(* password generation, complexity scoring, rating lookup and salted       *)
(* digests.  Strings and byte slices are sequences of byte values (ASCII   *)
(* code points); a *Password or *PasswordComplexity is a record, a nil     *)
(* pointer is the record Nil.  The model follows the current version of    *)
(* the package (the one with New, SaltConf and searchDict); the earlier    *)
(* password_utility.go has the same GeneratePassword, character classes    *)
(* and length test.                                                        *)
(***************************************************************************)
EXTENDS Integers, Sequences, FiniteSets, TLC

(* ---------------------------------------------------------------------- *)
(* Bounds of the model                                                     *)
(* ---------------------------------------------------------------------- *)
\* longest length argument handed to GeneratePassword / GenerateVeryStrongPassword
MaxGenLen == 8
\* most text fragments a caller-supplied password is concatenated from
MaxFrags == 2
\* longest salt a SaltConf asks for
MaxSalt == 2
\* most SaltConf arguments of one variadic digest call
MaxConfs == 2
\* highest Score of a caller-built PasswordComplexity
MaxScore == 5

(* ---------------------------------------------------------------------- *)
(* Package constants                                                       *)
(* ---------------------------------------------------------------------- *)
\* "ABCDEFGHIJKLMNOPQRSTUVWXYZabcdefghijklmnopqrstuvwxyz0123456789!@#$%^&*()-_=+,.?/:;{}[]~"
characters ==
  << 65, 66, 67, 68, 69, 70, 71, 72, 73, 74, 75, 76, 77, 78, 79, 80, 81, 82,
     83, 84, 85, 86, 87, 88, 89, 90,
     97, 98, 99, 100, 101, 102, 103, 104, 105, 106, 107, 108, 109, 110, 111,
     112, 113, 114, 115, 116, 117, 118, 119, 120, 121, 122,
     48, 49, 50, 51, 52, 53, 54, 55, 56, 57,
     33, 64, 35, 36, 37, 94, 38, 42, 40, 41, 45, 95, 61, 43, 44, 46, 63, 47,
     58, 59, 123, 125, 91, 93, 126 >>

\* map[int]string{0: "Horrible", 1: "Weak", 2: "Medium", 3: "Strong", 4: "Very Strong"}
passwordScores ==
  [s \in 0..4 |-> CASE s = 0 -> "Horrible"
                    [] s = 1 -> "Weak"
                    [] s = 2 -> "Medium"
                    [] s = 3 -> "Strong"
                    [] s = 4 -> "Very Strong"]

\* the length below which ProcessPassword refuses to evaluate
MinEvalLength == 8

\* the nil pointer
Nil == [nil |-> TRUE]

\* the error value of ProcessPassword, and the nil error
ErrTooShort == "ERROR: password isn't long enough for evaluation"
NoError == "nil"

(* ---------------------------------------------------------------------- *)
(* Regular expressions of ProcessPassword: each is one character class,    *)
(* given as the set of bytes it matches.                                   *)
(* ---------------------------------------------------------------------- *)
\* [a-z]
matchLower == 97..122
\* [A-Z]
matchUpper == 65..90
\* [0-9]
matchNumber == 48..57
\* [\!\@\#\$\%\^\&\*\(\\\)\-_\=\+\,\.\?\/\:\;\{\}\[\]~] : every escape is the
\* literal character, and the pair \\ between \( and \) is a literal backslash (92)
matchSpecial ==
  { 33, 64, 35, 36, 37, 94, 38, 42, 40, 92, 41, 45, 95, 61, 43, 44, 46, 63,
    47, 58, 59, 123, 125, 91, 93, 126 }

\* regexp.MatchString for a one-class expression: some byte of s is in the class
MatchString(class, s) == \E i \in 1..Len(s) : s[i] \in class

(* ---------------------------------------------------------------------- *)
(* strings.ToLower and strings.Contains (ASCII)                            *)
(* ---------------------------------------------------------------------- *)
ToLower(s) == [i \in 1..Len(s) |-> IF s[i] \in 65..90 THEN s[i] + 32 ELSE s[i]]

Contains(s, substr) ==
  \E i \in 0..(Len(s) - Len(substr)) : SubSeq(s, i + 1, i + Len(substr)) = substr

(* ---------------------------------------------------------------------- *)
(* Password                                                                *)
(* ---------------------------------------------------------------------- *)
New(password) == [Pass |-> password, Length |-> Len(password)]

\* what rand.Read does with a buffer of the given length: it fills it, or (for a
\* non-empty buffer only) it fails
RandBytes == {0, 26, 139, 236}

RandRead(length) ==
  {[err |-> FALSE, bytes |-> b] : b \in [1..length -> RandBytes]}
  \cup (IF length > 0 THEN {[err |-> TRUE, bytes |-> [j \in 1..length |-> 0]]} ELSE {})

\* GeneratePassword with a loop that stops one character early (j < length-1)
GeneratePasswordShortLoop(length, rnd) ==
  IF length < 0
    THEN [outcome |-> "panic", p |-> Nil]
    ELSE LET passwordBuffer ==
               IF ~rnd.err
                 THEN [j \in 1..(length - 1) |->
                         characters[(rnd.bytes[j] % Len(characters)) + 1]]
                 ELSE << >>
         IN [outcome |-> "return", p |-> New(passwordBuffer)]

\* GeneratePassword(length) with the outcome rnd of its rand.Read; make([]byte, length)
\* panics for a negative length
GeneratePassword(length, rnd) ==
  IF length < 0
    THEN [outcome |-> "panic", p |-> Nil]
    ELSE LET passwordBuffer ==
               IF ~rnd.err
                 THEN [j \in 1..length |->
                         characters[(rnd.bytes[j] % Len(characters)) + 1]]
                 ELSE << >>
         IN [outcome |-> "return", p |-> New(passwordBuffer)]

(* ---------------------------------------------------------------------- *)
(* The word list at wordsLocation: it may be missing, else it is a         *)
(* sequence of lines.                                                      *)
(* ---------------------------------------------------------------------- *)
\* scanner loop of searchDict from line i on: the first line whose lowercase
\* form contains word ends the loop with break (the return true after it is
\* never reached), and the function then returns false like a loop that ran out
RECURSIVE scanLoop(_, _, _)
scanLoop(word, lines, i) ==
  IF i > Len(lines)
    THEN FALSE
    ELSE IF Contains(ToLower(lines[i]), word)
           THEN FALSE
           ELSE scanLoop(word, lines, i + 1)

\* searchDict(word): log.Fatal when the file cannot be opened
searchDict(word, file) ==
  IF ~file.exists
    THEN [fatal |-> TRUE, found |-> FALSE]
    ELSE [fatal |-> FALSE, found |-> scanLoop(word, file.lines, 1)]

(* ---------------------------------------------------------------------- *)
(* ProcessPassword                                                         *)
(* ---------------------------------------------------------------------- *)
\* &PasswordComplexity{}
ZeroComplexity ==
  [Length |-> 0, Score |-> 0, ContainsUpper |-> FALSE, ContainsLower |-> FALSE,
   ContainsNumber |-> FALSE, ContainsSpecial |-> FALSE, DictionaryBased |-> FALSE]

\* ProcessPassword with the length test written p.Length <= 8
ProcessPasswordOffByOne(p, file) ==
  IF p.Length <= MinEvalLength
    THEN [outcome |-> "return", c |-> Nil, err |-> ErrTooShort]
    ELSE
      LET c0 == [ZeroComplexity EXCEPT !.Length = p.Length]
          c1 == IF MatchString(matchLower, p.Pass)
                  THEN [c0 EXCEPT !.ContainsLower = TRUE, !.Score = @ + 1] ELSE c0
          c2 == IF MatchString(matchUpper, p.Pass)
                  THEN [c1 EXCEPT !.ContainsUpper = TRUE, !.Score = @ + 1] ELSE c1
          c3 == IF MatchString(matchNumber, p.Pass)
                  THEN [c2 EXCEPT !.ContainsNumber = TRUE, !.Score = @ + 1] ELSE c2
          c4 == IF MatchString(matchSpecial, p.Pass)
                  THEN [c3 EXCEPT !.ContainsSpecial = TRUE, !.Score = @ + 1] ELSE c3
          d  == searchDict(p.Pass, file)
          c5 == IF d.found
                  THEN [c4 EXCEPT !.DictionaryBased = TRUE, !.Score = @ - 1] ELSE c4
      IN IF d.fatal
           THEN [outcome |-> "fatal", c |-> Nil, err |-> NoError]
           ELSE [outcome |-> "return", c |-> c5, err |-> NoError]

ProcessPassword(p, file) ==
  IF p.Length < MinEvalLength
    THEN [outcome |-> "return", c |-> Nil, err |-> ErrTooShort]
    ELSE
      LET c0 == [ZeroComplexity EXCEPT !.Length = p.Length]
          c1 == IF MatchString(matchLower, p.Pass)
                  THEN [c0 EXCEPT !.ContainsLower = TRUE, !.Score = @ + 1] ELSE c0
          c2 == IF MatchString(matchUpper, p.Pass)
                  THEN [c1 EXCEPT !.ContainsUpper = TRUE, !.Score = @ + 1] ELSE c1
          c3 == IF MatchString(matchNumber, p.Pass)
                  THEN [c2 EXCEPT !.ContainsNumber = TRUE, !.Score = @ + 1] ELSE c2
          c4 == IF MatchString(matchSpecial, p.Pass)
                  THEN [c3 EXCEPT !.ContainsSpecial = TRUE, !.Score = @ + 1] ELSE c3
          d  == searchDict(p.Pass, file)
          c5 == IF d.found
                  THEN [c4 EXCEPT !.DictionaryBased = TRUE, !.Score = @ - 1] ELSE c4
      IN IF d.fatal
           THEN [outcome |-> "fatal", c |-> Nil, err |-> NoError]
           ELSE [outcome |-> "return", c |-> c5, err |-> NoError]

\* ComplexityRating: a Go map lookup, the zero value "" for a missing key
ComplexityRating(c) ==
  IF c.Score \in DOMAIN passwordScores THEN passwordScores[c.Score] ELSE ""

(* ---------------------------------------------------------------------- *)
(* Digests: MD5, SHA256, SHA512                                            *)
(* ---------------------------------------------------------------------- *)
\* a nil []byte and a non-nil one
NilSlice == [nil |-> TRUE, bytes |-> << >>]
Slice(b) == [nil |-> FALSE, bytes |-> b]

\* md5.Sum, sha256.Sum256, sha512.Sum512: the digest of data under an algorithm,
\* kept symbolic (the algorithm, its size in bytes, and the bytes digested)
DigestSize == [MD5 |-> 16, SHA256 |-> 32, SHA512 |-> 64]
Sum(alg, data) == [alg |-> alg, size |-> DigestSize[alg], data |-> data]

\* getRandomBytes(length) with the outcome rnd of its rand.Read: make panics for
\* a negative length, log.Fatalf ends the process when rand.Read fails
getRandomBytes(length, rnd) ==
  IF length < 0
    THEN [outcome |-> "panic", randomData |-> << >>]
    ELSE IF rnd.err
           THEN [outcome |-> "fatal", randomData |-> << >>]
           ELSE [outcome |-> "return", randomData |-> rnd.bytes]

\* the verb %x of fmt.Sprintf on a byte slice: two lowercase hex digits per byte
\* the verb %X in place of %x: upper case hex digits
hexDigitUpper(d) == IF d < 10 THEN 48 + d ELSE 65 + (d - 10)
hexDigit(d) == IF d < 10 THEN 48 + d ELSE 97 + (d - 10)
SprintfHex(b) ==
  [i \in 1..(2 * Len(b)) |->
     IF i % 2 = 1 THEN hexDigit(b[(i + 1) \div 2] \div 16)
                  ELSE hexDigit(b[(i + 1) \div 2] % 16)]

\* for _, i := range saltConf[0:] { saltLength = i.Length }, from index i on:
\* the last SaltConf decides, and a nil *SaltConf panics on i.Length
RECURSIVE rangeSaltConf(_, _, _)
rangeSaltConf(saltConf, i, saltLength) ==
  IF i > Len(saltConf)
    THEN [panic |-> FALSE, saltLength |-> saltLength]
    ELSE IF saltConf[i] = Nil
           THEN [panic |-> TRUE, saltLength |-> saltLength]
           ELSE rangeSaltConf(saltConf, i + 1, saltConf[i].Length)

\* the body shared by (p *Password) MD5, SHA256 and SHA512
digestMethod(alg, p, saltConf, rnd) ==
  IF Len(saltConf) > 0
    THEN LET r == rangeSaltConf(saltConf, 1, 0)
             g == getRandomBytes(r.saltLength, rnd)
         IN IF r.panic
              THEN [outcome |-> "panic", digest |-> Nil, salt |-> NilSlice]
              ELSE IF g.outcome # "return"
                     THEN [outcome |-> g.outcome, digest |-> Nil, salt |-> NilSlice]
                     ELSE [outcome |-> "return",
                           digest  |-> Sum(alg, p.Pass \o SprintfHex(g.randomData)),
                           salt    |-> Slice(g.randomData)]
    ELSE [outcome |-> "return", digest |-> Sum(alg, p.Pass), salt |-> NilSlice]

MD5(p, saltConf, rnd) == digestMethod("MD5", p, saltConf, rnd)
SHA256(p, saltConf, rnd) == digestMethod("SHA256", p, saltConf, rnd)
SHA512(p, saltConf, rnd) == digestMethod("SHA512", p, saltConf, rnd)

(* ---------------------------------------------------------------------- *)
(* Inputs of the calls                                                     *)
(* ---------------------------------------------------------------------- *)
\* text fragments passwords are put together from: "Secret12", "alllower", "case",
\* "short", "Ab3#", "password", "aaaaaaa", seven spaces, and single characters:
\* each byte of matchSpecial, a space, a double quote, "a", "Z", "7"
Fragments ==
  { <<83, 101, 99, 114, 101, 116, 49, 50>>,
    <<97, 108, 108, 108, 111, 119, 101, 114>>,
    <<99, 97, 115, 101>>,
    <<115, 104, 111, 114, 116>>,
    <<65, 98, 51, 35>>,
    <<112, 97, 115, 115, 119, 111, 114, 100>>,
    <<97, 97, 97, 97, 97, 97, 97>>,
    <<32, 32, 32, 32, 32, 32, 32>> }
  \cup { <<ch>> : ch \in matchSpecial \cup {32, 34, 97, 90, 55} }

RECURSIVE TextsOf(_)
TextsOf(n) ==
  IF n = 0 THEN { << >> }
  ELSE TextsOf(n - 1) \cup { t \o f : t \in TextsOf(n - 1), f \in Fragments }

Texts == TextsOf(MaxFrags)

\* passwords handed to the digest methods
HashTexts == TextsOf(1)

\* the word list file: missing, empty, or holding "apple", "Passwords", "secretary"
WordFiles ==
  { [exists |-> FALSE, lines |-> << >>],
    [exists |-> TRUE,  lines |-> << >>],
    [exists |-> TRUE,
     lines  |-> << <<97, 112, 112, 108, 101>>,
                   <<80, 97, 115, 115, 119, 111, 114, 100, 115>>,
                   <<115, 101, 99, 114, 101, 116, 97, 114, 121>> >>] }

\* the variadic saltConf arguments: up to MaxConfs pointers, nil or &SaltConf{Length: n}
SaltConf(n) == [Length |-> n]
SaltConfPtrs == {Nil} \cup {SaltConf(n) : n \in -1..MaxSalt}
SaltConfArgs == UNION {[1..k -> SaltConfPtrs] : k \in 0..MaxConfs}

\* the *PasswordComplexity a caller may hold: nil, or a struct with any Score
Complexities ==
  {Nil} \cup {[ZeroComplexity EXCEPT !.Length = MinEvalLength, !.Score = s] : s \in -1..MaxScore}

(* ---------------------------------------------------------------------- *)
(* State: the last call the caller made (its operation, arguments and      *)
(* result), whether the process is alive (log.Fatal ends it), and the      *)
(* position of an unfinished GenerateVeryStrongPassword loop.              *)
(* ---------------------------------------------------------------------- *)
VARIABLES call, alive, gvs

vars == <<call, alive, gvs>>

Idle == [pc |-> "idle", length |-> 0, randBytes |-> << >>, p |-> Nil]

Init ==
  /\ call = [op |-> "none", in |-> Nil, out |-> [outcome |-> "none"]]
  /\ alive = TRUE
  /\ gvs = Idle

\* the caller may make a call: the process is alive, no call is unfinished and
\* the result of the last one has been taken
Ready == alive /\ gvs.pc = "idle" /\ call.op = "none"

Finish(op, in, out) ==
  /\ call' = [op |-> op, in |-> in, out |-> out]
  /\ alive' = (out.outcome # "fatal")
  /\ gvs' = Idle

\* the caller has used the result and goes on to its next call
CallerContinues ==
  /\ alive
  /\ call.op # "none"
  /\ call' = [op |-> "none", in |-> Nil, out |-> [outcome |-> "none"]]
  /\ UNCHANGED <<alive, gvs>>

NewCall ==
  /\ Ready
  /\ \E password \in Texts :
       Finish("New", [password |-> password], [outcome |-> "return", p |-> New(password)])

GeneratePasswordCall ==
  /\ Ready
  /\ \E length \in -1..MaxGenLen :
       \E rnd \in RandRead(length) :
         Finish("GeneratePassword", [length |-> length, rnd |-> rnd],
                GeneratePassword(length, rnd))

ProcessPasswordCall ==
  /\ Ready
  /\ \E password \in Texts, file \in WordFiles :
       Finish("ProcessPassword", [p |-> New(password), file |-> file],
              ProcessPassword(New(password), file))

ComplexityRatingCall ==
  /\ Ready
  /\ \E c \in Complexities :
       Finish("ComplexityRating", [c |-> c],
              IF c = Nil THEN [outcome |-> "panic", rating |-> ""]
                         ELSE [outcome |-> "return", rating |-> ComplexityRating(c)])

\* the salt length the call will ask rand.Read for (none when it panics before)
SaltReads(saltConf) ==
  LET r == rangeSaltConf(saltConf, 1, 0)
  IN IF Len(saltConf) = 0 \/ r.panic THEN RandRead(0) ELSE RandRead(r.saltLength)

MD5Call ==
  /\ Ready
  /\ \E password \in HashTexts, saltConf \in SaltConfArgs :
       \E rnd \in SaltReads(saltConf) :
         Finish("MD5", [p |-> New(password), saltConf |-> saltConf, rnd |-> rnd],
                MD5(New(password), saltConf, rnd))

SHA256Call ==
  /\ Ready
  /\ \E password \in HashTexts, saltConf \in SaltConfArgs :
       \E rnd \in SaltReads(saltConf) :
         Finish("SHA256", [p |-> New(password), saltConf |-> saltConf, rnd |-> rnd],
                SHA256(New(password), saltConf, rnd))

SHA512Call ==
  /\ Ready
  /\ \E password \in HashTexts, saltConf \in SaltConfArgs :
       \E rnd \in SaltReads(saltConf) :
         Finish("SHA512", [p |-> New(password), saltConf |-> saltConf, rnd |-> rnd],
                SHA512(New(password), saltConf, rnd))

\* GenerateVeryStrongPassword(length) is entered
GenerateVeryStrongPasswordCall ==
  /\ Ready
  /\ \E length \in -1..MaxGenLen :
       gvs' = [pc |-> "generate", length |-> length, randBytes |-> << >>, p |-> Nil]
  /\ UNCHANGED <<call, alive>>

\* in its for loop, inside p := GeneratePassword(length): the random source
\* hands rand.Read the next byte of randBytes
GenerateVeryStrongPasswordRandByte ==
  /\ alive
  /\ gvs.pc = "generate"
  /\ Len(gvs.randBytes) < gvs.length
  /\ \E b \in RandBytes : gvs' = [gvs EXCEPT !.randBytes = Append(@, b)]
  /\ UNCHANGED <<call, alive>>

\* in its for loop: p := GeneratePassword(length), once rand.Read has its bytes
\* or has failed
GenerateVeryStrongPasswordGenerate ==
  /\ alive
  /\ gvs.pc = "generate"
  /\ \E rnd \in {[err |-> FALSE, bytes |-> gvs.randBytes],
                 [err |-> TRUE, bytes |-> [j \in 1..gvs.length |-> 0]]} :
       /\ rnd.err => (gvs.length > 0 /\ gvs.randBytes = << >>)
       /\ ~rnd.err => (gvs.length < 0 \/ Len(gvs.randBytes) = gvs.length)
       /\ LET g == GeneratePassword(gvs.length, rnd)
          IN IF g.outcome = "panic"
               THEN Finish("GenerateVeryStrongPassword", [length |-> gvs.length],
                           [outcome |-> "panic", p |-> Nil])
               ELSE /\ gvs' = [gvs EXCEPT !.pc = "process", !.p = g.p]
                    /\ UNCHANGED <<call, alive>>

\* the scoring step with the test written pc.Score >= 3
GenerateVeryStrongPasswordProcessAtLeast3 ==
  /\ alive
  /\ gvs.pc = "process"
  /\ \E file \in WordFiles :
       LET pc == ProcessPassword(gvs.p, file)
           in == [length |-> gvs.length]
       IN IF pc.outcome = "fatal" \/ pc.err # NoError
            THEN Finish("GenerateVeryStrongPassword", in, [outcome |-> "fatal", p |-> Nil])
            ELSE IF pc.c.Score >= 3
                   THEN Finish("GenerateVeryStrongPassword", in,
                               [outcome |-> "return", p |-> gvs.p])
                   ELSE /\ gvs' = [gvs EXCEPT !.pc = "generate", !.randBytes = << >>,
                                                  !.p = Nil]
                        /\ UNCHANGED <<call, alive>>

\* in its for loop: pc, err := ProcessPassword(p); log.Fatalln on an error,
\* return p when pc.Score is 4, else go round again
GenerateVeryStrongPasswordProcess ==
  /\ alive
  /\ gvs.pc = "process"
  /\ \E file \in WordFiles :
       LET pc == ProcessPassword(gvs.p, file)
           in == [length |-> gvs.length]
       IN IF pc.outcome = "fatal" \/ pc.err # NoError
            THEN Finish("GenerateVeryStrongPassword", in, [outcome |-> "fatal", p |-> Nil])
            ELSE IF pc.c.Score = 4
                   THEN Finish("GenerateVeryStrongPassword", in,
                               [outcome |-> "return", p |-> gvs.p])
                   ELSE /\ gvs' = [gvs EXCEPT !.pc = "generate", !.randBytes = << >>,
                                                  !.p = Nil]
                        /\ UNCHANGED <<call, alive>>

Next ==
  \/ NewCall
  \/ GeneratePasswordCall
  \/ ProcessPasswordCall
  \/ ComplexityRatingCall
  \/ MD5Call
  \/ SHA256Call
  \/ SHA512Call
  \/ GenerateVeryStrongPasswordCall
  \/ GenerateVeryStrongPasswordRandByte
  \/ GenerateVeryStrongPasswordGenerate
  \/ GenerateVeryStrongPasswordProcess
  \/ CallerContinues

Spec == Init /\ [][Next]_vars

\* one call of GenerateVeryStrongPassword, run to its end: its for loop keeps
\* running while it may
NextVeryStrong ==
  \/ GenerateVeryStrongPasswordCall
  \/ GenerateVeryStrongPasswordRandByte
  \/ GenerateVeryStrongPasswordGenerate
  \/ GenerateVeryStrongPasswordProcess

FairSpec ==
  /\ Init
  /\ [][NextVeryStrong]_vars
  /\ WF_vars(GenerateVeryStrongPasswordRandByte)
  /\ WF_vars(GenerateVeryStrongPasswordGenerate)
  /\ WF_vars(GenerateVeryStrongPasswordProcess)

(* ---------------------------------------------------------------------- *)
(* Vocabulary of the properties                                            *)
(* ---------------------------------------------------------------------- *)
\* the documented classes: lower case, upper case, digits, and the 25 symbols
\* !@#$%^&*()-_=+,.?/:;{}[]~
LowerClass == {ch \in 0..127 : ch >= 97 /\ ch <= 122}
UpperClass == {ch \in 0..127 : ch >= 65 /\ ch <= 90}
NumberClass == {ch \in 0..127 : ch >= 48 /\ ch <= 57}
SpecialClass ==
  {33, 35, 36, 37, 38, 40, 41, 42, 43, 44, 45, 46, 47, 58, 59, 61, 63, 64,
   91, 93, 94, 95, 123, 125, 126}

Holds(text, class) == {i \in 1..Len(text) : text[i] \in class} # {}

B2N(b) == IF b THEN 1 ELSE 0

\* how many of the four flags of a report are true
FlagCount(c) ==
  B2N(c.ContainsLower) + B2N(c.ContainsUpper) + B2N(c.ContainsNumber) + B2N(c.ContainsSpecial)

\* how many of the four documented classes a text holds
ClassCount(text) ==
  B2N(Holds(text, LowerClass)) + B2N(Holds(text, UpperClass))
    + B2N(Holds(text, NumberClass)) + B2N(Holds(text, SpecialClass))

\* "Secret12", "alllowercase", "Ab3#"
Secret12 == <<83, 101, 99, 114, 101, 116, 49, 50>>
AllLowerCase == <<97, 108, 108, 108, 111, 119, 101, 114, 99, 97, 115, 101>>
Ab3Hash == <<65, 98, 51, 35>>

\* a finished ProcessPassword call, and one that returned a report
Processed == call.op = "ProcessPassword"
Reported == Processed /\ call.out.outcome = "return" /\ call.out.c # Nil

\* some line of the word list contains the text when put in lower case
DictionaryHit(file, text) ==
  /\ file.exists
  /\ \E i \in 1..Len(file.lines) :
       \E k \in 0..(Len(file.lines[i]) - Len(text)) :
         \A j \in 1..Len(text) :
           LET ch == file.lines[i][k + j]
           IN text[j] = (IF ch >= 65 /\ ch <= 90 THEN ch + 32 ELSE ch)

(* ---------------------------------------------------------------------- *)
(* C1                                                                      *)
(* ---------------------------------------------------------------------- *)
\* C1: for every password of length >= 8 whose dictionary check reports no hit,
\* the report's four flags are true exactly when the password holds a character
\* of the documented class, Score is the number of true flags (0..4), Length is
\* the password's length; "Secret12" scores 3 and "alllowercase" scores 1.
C1_FlagsAndScore ==
  (Reported /\ call.in.p.Length >= 8 /\ ~call.out.c.DictionaryBased) =>
    LET c == call.out.c
        text == call.in.p.Pass
    IN /\ c.ContainsLower = Holds(text, LowerClass)
       /\ c.ContainsUpper = Holds(text, UpperClass)
       /\ c.ContainsNumber = Holds(text, NumberClass)
       /\ c.ContainsSpecial = Holds(text, SpecialClass)
       /\ c.Score = FlagCount(c)
       /\ c.Score \in 0..4
       /\ c.Length = Len(text)
       /\ (text = Secret12 => c.Score = 3)
       /\ (text = AllLowerCase => c.Score = 1)

C3_DictionaryPenalty ==
  (Reported /\ call.in.p.Length >= 8) =>
    LET c == call.out.c
    IN IF DictionaryHit(call.in.file, call.in.p.Pass)
         THEN c.DictionaryBased /\ c.Score = FlagCount(c) - 1
         ELSE ~c.DictionaryBased /\ c.Score = FlagCount(c)

(* ---------------------------------------------------------------------- *)
(* C4, C5                                                                  *)
(* ---------------------------------------------------------------------- *)
Generated == call.op = "GeneratePassword"

\* the letters, the digits and the 25 symbols
Alphabet == LowerClass \cup UpperClass \cup NumberClass \cup SpecialClass

C5_RandomSourceError ==
  (Generated /\ call.in.length >= 0 /\ call.in.rnd.err) =>
    /\ call.out.outcome = "error"
    /\ call.out.p = Nil

(* ---------------------------------------------------------------------- *)
(* C6                                                                      *)
(* ---------------------------------------------------------------------- *)
VeryStrong == call.op = "GenerateVeryStrongPassword"

\* the report ProcessPassword gives for p scores 4, whatever word list it opens
RecomputedScoreIs4(p) ==
  \A file \in WordFiles :
    file.exists =>
      LET r == ProcessPassword(p, file)
      IN r.outcome = "return" /\ r.err = NoError /\ r.c # Nil /\ r.c.Score = 4

Digested == call.op \in {"MD5", "SHA256", "SHA512"}

\* the call was given salt configurations, none nil; the last one decides
Salted ==
  /\ Digested
  /\ Len(call.in.saltConf) > 0
  /\ \A i \in 1..Len(call.in.saltConf) : call.in.saltConf[i] # Nil

DecidingLength == call.in.saltConf[Len(call.in.saltConf)].Length

\* "0123456789abcdef"
HexChars == <<48, 49, 50, 51, 52, 53, 54, 55, 56, 57, 97, 98, 99, 100, 101, 102>>

\* data is text followed by the lowercase hexadecimal text of bytes
IsTextThenHex(data, text, bytes) ==
  /\ Len(data) = Len(text) + 2 * Len(bytes)
  /\ \A i \in 1..Len(text) : data[i] = text[i]
  /\ \A j \in 1..Len(bytes) :
       /\ data[Len(text) + 2 * j - 1] = HexChars[(bytes[j] \div 16) + 1]
       /\ data[Len(text) + 2 * j] = HexChars[(bytes[j] % 16) + 1]

\* C7: with a salt configuration of positive length n (and a random source that
\* delivers) the call returns a salt of exactly n raw bytes and the digest of
\* its algorithm over p.Pass followed by the lowercase hexadecimal text of the
\* salt, so that recomputing from the returned salt gives the returned digest;
\* with no salt configuration the digest is over p.Pass alone and the salt is nil.
C7_SaltedDigest ==
  /\ (Salted /\ DecidingLength > 0 /\ ~call.in.rnd.err) =>
       /\ call.out.outcome = "return"
       /\ ~call.out.salt.nil
       /\ Len(call.out.salt.bytes) = DecidingLength
       /\ call.out.salt.bytes = call.in.rnd.bytes
       /\ call.out.digest.alg = call.op
       /\ IsTextThenHex(call.out.digest.data, call.in.p.Pass, call.out.salt.bytes)
  /\ (Digested /\ Len(call.in.saltConf) = 0) =>
       /\ call.out.outcome = "return"
       /\ call.out.salt.nil
       /\ call.out.digest.alg = call.op
       /\ call.out.digest.data = call.in.p.Pass

\* SHA256 of "Ab3#" was taken with a two-byte salt 8b ec
C7_Witness ==
  /\ call.op = "SHA256"
  /\ call.in.p.Pass = Ab3Hash
  /\ call.in.saltConf = <<SaltConf(2)>>
  /\ call.out.outcome = "return"
  /\ call.out.salt.bytes = <<139, 236>>

\* C8: a salted digest call whose salt configuration has Length <= 0 fails with
\* an invalid-salt-length error and returns no digest and no salt; it neither
\* returns a digest over an empty salt nor aborts.
C8_InvalidSaltLength ==
  (Salted /\ DecidingLength <= 0) =>
    /\ call.out.outcome = "error"
    /\ call.out.digest = Nil
    /\ call.out.salt.nil

(* ---------------------------------------------------------------------- *)
(* C9, C10                                                                 *)
(* ---------------------------------------------------------------------- *)
Rated == call.op = "ComplexityRating" /\ call.in.c # Nil

RatingNames == <<"Horrible", "Weak", "Medium", "Strong", "Very Strong">>

Clamped(s) == IF s < 0 THEN 0 ELSE IF s > 4 THEN 4 ELSE s

\* C9: ComplexityRating gives "Horrible", "Weak", "Medium", "Strong",
\* "Very Strong" for the scores 0..4, and for a Score outside 0..4 it surfaces
\* an unratable-score error or gives the rating of the clamped score; it never
\* silently returns a default rating.
C9_Rating ==
  Rated =>
    IF call.in.c.Score \in 0..4
      THEN /\ call.out.outcome = "return"
           /\ call.out.rating = RatingNames[call.in.c.Score + 1]
      ELSE \/ call.out.outcome = "error"
           \/ /\ call.out.outcome = "return"
              /\ call.out.rating = RatingNames[Clamped(call.in.c.Score) + 1]

\* C10: for every password of length >= 8, ContainsSpecial is true if and only
\* if the password holds one of the 25 symbols !@#$%^&*()-_=+,.?/:;{}[]~ ; no
\* other character (a backslash, a space, a quote) sets the flag.
C10_SpecialSet ==
  (Reported /\ call.in.p.Length >= 8) =>
    (call.out.c.ContainsSpecial <=> Holds(call.in.p.Pass, SpecialClass))

====
